---- MODULE Spec2Model ----
(***************************************************************************)
(* Model of the crawl engine of mcp-rag-web-scraper:                       *)
(*   src/scrapers/website_scraper.py  (WebsiteScraper)                     *)
(*   src/app.py                       (start_scrape / stop_scrape)         *)
(* URLs and hrefs are sequences of tokens, so that str.startswith and      *)
(* urljoin are computed on the text and not assumed.                       *)
(***************************************************************************)
EXTENDS Bags, FiniteSets, Integers, Sequences, TLC

\* ------------------------------------------------------------------ bounds
MaxConcurrency == 3     \* largest configured "concurrency" explored
MaxPagesArg == 3        \* largest max_pages argument explored
MaxRuns == 2            \* runs of scrape_website per scraper
MaxEvents == 1          \* stop() calls plus failing engine calls explored

\* ------------------------------------------------------------- URL strings
base_url == <<"https:", "/", "/", "site">>

AbsUrl(name) == base_url \o <<"/", name>>

\* str.startswith
StartsWith(s, prefix) ==
    /\ Len(s) >= Len(prefix)
    /\ SubSeq(s, 1, Len(prefix)) = prefix

\* urllib.parse.urljoin(base, href) for an href that starts with "/":
\* a network-path reference ("//host/...") keeps only the base's scheme,
\* an absolute path keeps the base's scheme and authority.
urljoin(base, href) ==
    IF Len(href) >= 2 /\ href[2] = "/"
    THEN <<base[1]>> \o href
    ELSE SubSeq(base, 1, 4) \o href

\* The site that the rendering engine serves: page URL -> hrefs of its anchors
SiteDup ==
    [u \in {base_url, AbsUrl("a"), AbsUrl("b")} |->
        CASE u = base_url    -> << AbsUrl("a"), <<"/", "b">>, <<"/", "b">>,
                                   <<"https:", "/", "/", "other", "/", "c">>,
                                   <<"#", "frag">> >>
          [] u = AbsUrl("a") -> << <<"/", "b">>, base_url >>
          [] u = AbsUrl("b") -> << AbsUrl("a") >>
          [] OTHER           -> << >> ]

Sites == {SiteDup}

Hrefs(s, u) == IF u \in DOMAIN s THEN s[u] ELSE << >>

\* link extraction that keeps every href, whatever it starts with
_extract_links_KeepsEvery(hrefs) ==
    LET filled == SelectSeq(hrefs, LAMBDA href : href # << >>)
    IN  [i \in 1..Len(filled) |->
            IF filled[i][1] = "/" THEN urljoin(base_url, filled[i])
            ELSE filled[i]]

\* link extraction that keeps only the hrefs that start with the base URL
_extract_links_AbsoluteOnly(hrefs) ==
    SelectSeq(hrefs, LAMBDA href : href # << >> /\ StartsWith(href, base_url))

\* WebsiteScraper._extract_links: the hrefs of the anchors, in page order
RECURSIVE _extract_links(_)
_extract_links(hrefs) ==
    IF hrefs = << >> THEN << >>
    ELSE LET href == Head(hrefs)
             rest == _extract_links(Tail(hrefs))
         IN  IF href = << >> THEN rest
             ELSE IF StartsWith(href, base_url) THEN <<href>> \o rest
             ELSE IF href[1] = "/" THEN <<urljoin(base_url, href)>> \o rest
             ELSE rest

InSeq(x, s) == \E i \in 1..Len(s) : s[i] = x

Min(a, b) == IF a < b THEN a ELSE b

\* ------------------------------------------------------------------- state
VARIABLES
    override_robots,      \* WebsiteScraper.override_robots
    robots_parser,        \* state of the RobotFileParser built at construction
    MAX_CONCURRENT_PAGES, \* module constant read from the configuration
    visited_urls,         \* WebsiteScraper.visited_urls
    urls_to_scrape,       \* WebsiteScraper.urls_to_scrape
    stop_triggered,       \* WebsiteScraper.stop_triggered
    last_scraped_time,    \* 0 is None, k > 0 the start of the k-th run
    semaphore,            \* free permits of WebsiteScraper.semaphore
    pc,                   \* position of the scrape_website coroutine
    max_pages,            \* argument of the current run
    first_run,            \* local of scrape_website
    batch,                \* local of scrape_website: the batch as pulled
    units,                \* the tasks handed to asyncio.gather
    site,                 \* what the rendering engine serves
    store_docs,           \* bag of URLs given to store_documents in this run
    close_calls,          \* calls of DocumentStore.close
    drained,              \* bag of URLs returned in batches of this run
    fetched,              \* bag of URLs whose page.goto returned in this run
    stop_in_run,          \* stop() was called since this run started
    failures,             \* failed rendering-engine calls so far
    stop_calls,           \* calls of stop()
    closed_contexts,      \* times the finally of lines 123-125 ran in this run
    document_stores,      \* DocumentStore objects the scraper has created
    \* src/app.py
    scrapers,             \* the registry dict: host -> scraper instance
    jobs,                 \* ids of the jobs held by the scheduler
    response,             \* what the last request was answered with
    request,              \* the last request handled
    created,              \* scraper instances constructed so far
    stopped,              \* instances whose stop() was called
    \* src/config/config.py
    __default__config,    \* the module's configuration dict: key -> value
    \* calls of single methods
    call_args,            \* arguments of the last call, << >> before it
    call_result           \* << value returned by that call >>

\* state of the service process: the registry and the configuration module
app_vars == << scrapers, jobs, response, request, created, stopped,
              __default__config >>

call_vars == << call_args, call_result >>

scraper_vars == << override_robots, robots_parser, MAX_CONCURRENT_PAGES,
                   visited_urls, urls_to_scrape, stop_triggered,
                   last_scraped_time, semaphore, pc, max_pages, first_run,
                   batch, units, site, store_docs, close_calls, drained,
                   fetched,
                   stop_in_run, failures, stop_calls, closed_contexts,
                   document_stores >>

vars == << scraper_vars, app_vars, call_vars >>

\* ------------------------------------------------------------ policy guard
\* Paths the robots.txt of the site disallows for the scraper's user agent
RobotsDisallow == { <<"/", "b">> }

\* RobotFileParser.can_fetch on the parser kept by the scraper (line 63):
\* a parser whose read() raised has never been marked as checked and
\* answers False for every URL; "allow_all" is a robots.txt answered 4xx
robots_can_fetch(url) ==
    CASE robots_parser = "unread"    -> FALSE
      [] robots_parser = "allow_all" -> TRUE
      [] OTHER -> ~\E rule \in RobotsDisallow :
                      StartsWith(SubSeq(url, 5, Len(url)), rule)

\* a guard that asks the ruleset even when override_robots is set
_can_fetch_IgnoresOverride(url, raises) ==
    IF raises THEN FALSE ELSE robots_can_fetch(url)

\* a guard that never asks the ruleset
_can_fetch_NoRuleset(url, raises) ==
    IF override_robots THEN TRUE
    ELSE IF raises THEN FALSE
    ELSE TRUE

\* a guard that allows the URL when the evaluation raises
_can_fetch_FailOpen(url, raises) ==
    IF override_robots THEN TRUE
    ELSE IF raises THEN TRUE
    ELSE robots_can_fetch(url)

\* WebsiteScraper._can_fetch (lines 51-66); raises: the evaluation of the
\* ruleset (line 63) raises an Exception, which line 64 catches
_can_fetch(url, raises) ==
    IF override_robots THEN TRUE
    ELSE IF raises THEN FALSE
    ELSE robots_can_fetch(url)

\* ------------------------------------------------------- frontier helpers
\* a slice that takes one URL more than the limit
BatchOf_OneMore(frontier, first) ==
    IF first THEN frontier
    ELSE SubSeq(frontier, 1, Min(MAX_CONCURRENT_PAGES + 1, Len(frontier)))

\* lines 99-104: the batch a loop iteration works on, and what stays queued
BatchOf(frontier, first) ==
    IF first THEN frontier
    ELSE SubSeq(frontier, 1, Min(MAX_CONCURRENT_PAGES, Len(frontier)))

RestOf(frontier, first) ==
    IF first THEN frontier
    ELSE SubSeq(frontier, Min(MAX_CONCURRENT_PAGES, Len(frontier)) + 1,
                Len(frontier))

\* lines 109-115: the URLs of the batch that get a task
TasksOf(urls, visited) ==
    SelectSeq(urls, LAMBDA url : url \notin visited /\ _can_fetch(url, FALSE))

\* link filtering that does not ask the policy guard
OfferLinks_NoGuard(frontier, new_links, visited) ==
    frontier \o SelectSeq(new_links,
                          LAMBDA link : /\ link \notin visited
                                        /\ ~InSeq(link, frontier))

\* lines 172-177: the list comprehension is built against the frontier as
\* it is before extend() appends
\* an offer that puts the new links at the head of the frontier
OfferLinks_AtHead(frontier, new_links, visited) ==
    SelectSeq(new_links,
              LAMBDA link : /\ link \notin visited
                            /\ ~InSeq(link, frontier)
                            /\ _can_fetch(link, FALSE)) \o frontier

\* an offer that also skips the URLs of the batch being fetched
OfferLinks_SkipsBatch(frontier, new_links, visited) ==
    frontier \o SelectSeq(new_links,
                          LAMBDA link : /\ link \notin visited
                                        /\ ~InSeq(link, frontier)
                                        /\ ~InSeq(link, batch)
                                        /\ _can_fetch(link, FALSE))

OfferLinks(frontier, new_links, visited) ==
    frontier \o SelectSeq(new_links,
                          LAMBDA link : /\ link \notin visited
                                        /\ ~InSeq(link, frontier)
                                        /\ _can_fetch(link, FALSE))

\* Variant of CaughtInUnit: the handler covers only the inner try block,
\* so an error of context.new_page() leaves the task
CaughtInUnit_InnerOnly(stage) ==
    stage \in {"goto", "links", "close"}

\* lines 156-184: is an Exception raised at this stage caught inside
\* _scrape_page ("except Exception" of the outer try)
CaughtInUnit(stage) ==
    stage \in {"new_page", "goto", "links", "close"}

\* Variant of SemaphoreAfterExit: the permit is released on the normal
\* path only (acquire/release without try-finally)
SemaphoreAfterExit_NoReleaseOnError(sem, outcome) ==
    IF outcome = "error" THEN sem ELSE sem + 1

\* line 137: "async with self.semaphore" gives the permit back however the
\* body ends
SemaphoreAfterExit(sem, outcome) == sem + 1

\* ------------------------------------------------------------------- Init
\* Constructor arguments and robots.txt outcomes explored
ScraperConfigs ==
    { [override_robots |-> TRUE,  robots_parser |-> "rules"],
      [override_robots |-> FALSE, robots_parser |-> "rules"],
      [override_robots |-> FALSE, robots_parser |-> "unread"] }

\* State after WebsiteScraper.__init__ (lines 20-33)
\* lines 6-11 of src/config/config.py: the configuration as loaded (values
\* as text)
DefaultConfig ==
    [k \in {"logging_level", "server_port", "llm_model"} |->
        CASE k = "logging_level" -> "INFO"
          [] k = "server_port"   -> "8090"
          [] OTHER               -> "gemma3:12b"]

\* a constructor that queues the base URL and makes a second store
Constructed_Seeded ==
    /\ visited_urls = {}
    /\ urls_to_scrape = <<base_url>>
    /\ stop_triggered = FALSE
    /\ last_scraped_time = 0
    /\ semaphore = MAX_CONCURRENT_PAGES
    /\ pc = "idle"
    /\ max_pages = 0
    /\ first_run = FALSE
    /\ batch = << >>
    /\ units = << >>
    /\ store_docs = EmptyBag
    /\ close_calls = 0
    /\ drained = EmptyBag
    /\ fetched = EmptyBag
    /\ stop_in_run = FALSE
    /\ failures = 0
    /\ stop_calls = 0
    /\ closed_contexts = 0
    /\ document_stores = 2
    /\ scrapers = << >>
    /\ jobs = {}
    /\ response = "none"
    /\ request = [n |-> 0]
    /\ created = 0
    /\ stopped = {}
    /\ __default__config = DefaultConfig
    /\ call_args = << >>
    /\ call_result = << >>

\* WebsiteScraper.__init__ (lines 20-33): the fields of a new scraper, apart
\* from its configuration; no job of the service, no method called yet
Constructed ==
    /\ visited_urls = {}
    /\ urls_to_scrape = << >>
    /\ stop_triggered = FALSE
    /\ last_scraped_time = 0
    /\ semaphore = MAX_CONCURRENT_PAGES
    /\ pc = "idle"
    /\ max_pages = 0
    /\ first_run = FALSE
    /\ batch = << >>
    /\ units = << >>
    /\ store_docs = EmptyBag
    /\ close_calls = 0
    /\ drained = EmptyBag
    /\ fetched = EmptyBag
    /\ stop_in_run = FALSE
    /\ failures = 0
    /\ stop_calls = 0
    /\ closed_contexts = 0
    /\ document_stores = 1
    /\ scrapers = << >>
    /\ jobs = {}
    /\ response = "none"
    /\ request = [n |-> 0]
    /\ created = 0
    /\ stopped = {}
    /\ __default__config = DefaultConfig
    /\ call_args = << >>
    /\ call_result = << >>

Init ==
    /\ \E c \in ScraperConfigs : /\ override_robots = c.override_robots
                                /\ robots_parser = c.robots_parser
    /\ MAX_CONCURRENT_PAGES \in 1..MaxConcurrency
    /\ site \in Sites
    /\ Constructed

\* what construction fixes for the life of the scraper
config_vars == << override_robots, robots_parser, MAX_CONCURRENT_PAGES, site,
                 document_stores >>

SeqToBag(s) == [x \in {s[i] : i \in 1..Len(s)} |->
                    Cardinality({i \in 1..Len(s) : s[i] = x})]

\* --------------------------------------------------------- scrape_website
\* a run start that keeps the visited set of the earlier run
scrape_website_KeepsVisited(mp) ==
    /\ pc \in {"idle", "done", "failed"}
    /\ last_scraped_time < MaxRuns
    /\ last_scraped_time' = last_scraped_time + 1
    /\ max_pages' = mp
    /\ pc' = "launch"
    /\ drained' = EmptyBag
    /\ fetched' = EmptyBag
    /\ store_docs' = EmptyBag
    /\ stop_in_run' = FALSE
    /\ batch' = << >>
    /\ closed_contexts' = 0
    /\ UNCHANGED << app_vars, call_vars, config_vars, visited_urls,
                    urls_to_scrape, stop_triggered, semaphore, first_run,
                    units, close_calls, stop_calls, failures >>

\* lines 74-77: up to the first await
scrape_website(mp) ==
    /\ pc \in {"idle", "done", "failed"}
    /\ last_scraped_time < MaxRuns
    /\ last_scraped_time' = last_scraped_time + 1
    /\ visited_urls' = {}
    /\ max_pages' = mp
    /\ pc' = "launch"
    /\ drained' = EmptyBag
    /\ fetched' = EmptyBag
    /\ store_docs' = EmptyBag
    /\ stop_in_run' = FALSE
    /\ batch' = << >>
    /\ closed_contexts' = 0
    /\ UNCHANGED << app_vars, call_vars, config_vars, urls_to_scrape,
                    stop_triggered, semaphore, first_run, units, close_calls,
                    stop_calls, failures >>

\* line 78: await p.chromium.launch(); an error leaves scrape_website
launch(ok) ==
    /\ pc = "launch"
    /\ ok \/ failures + stop_calls < MaxEvents
    /\ pc' = IF ok THEN "new_context" ELSE "failed"
    /\ failures' = IF ok THEN failures ELSE failures + 1
    /\ UNCHANGED stop_calls
    /\ UNCHANGED << app_vars, call_vars, config_vars, closed_contexts,
                    batch,
                    visited_urls, urls_to_scrape, stop_triggered,
                    last_scraped_time, semaphore, max_pages, first_run, units,
                    store_docs, close_calls, drained, fetched, stop_in_run >>

\* lines 82-96: await browser.new_context(), then the frontier is seeded
new_context(ok) ==
    /\ pc = "new_context"
    /\ ok \/ failures + stop_calls < MaxEvents
    /\ IF ok
       THEN /\ urls_to_scrape' = <<base_url>>
            /\ first_run' = TRUE
            /\ pc' = "loop"
            /\ failures' = failures
       ELSE /\ pc' = "failed"
            /\ failures' = failures + 1
            /\ UNCHANGED << urls_to_scrape, first_run >>
    /\ UNCHANGED stop_calls
    /\ UNCHANGED << app_vars, call_vars, config_vars, closed_contexts,
                    batch,
                    visited_urls, stop_triggered,
                    last_scraped_time, semaphore, max_pages, units,
                    store_docs, close_calls, drained, fetched, stop_in_run >>

NewUnit(url) == [url |-> url, pc |-> "new", exc |-> "none"]

\* a loop whose exit returns without running the finally block
loop_iter_NoFinally ==
    /\ pc = "loop"
    /\ IF urls_to_scrape # << >> /\ Cardinality(visited_urls) < max_pages
       THEN LET tasks == TasksOf(batch', visited_urls)
            IN  /\ batch' = BatchOf(urls_to_scrape, first_run)
                /\ urls_to_scrape' = RestOf(urls_to_scrape, first_run)
                /\ first_run' = FALSE
                /\ units' = [i \in 1..Len(tasks) |-> NewUnit(tasks[i])]
                /\ drained' = drained (+) SeqToBag(batch')
                /\ pc' = "gather"
       ELSE /\ pc' = "done"
            /\ UNCHANGED << urls_to_scrape, first_run, batch, units,
                            drained >>
    /\ UNCHANGED stop_calls
    /\ UNCHANGED << app_vars, call_vars, config_vars, closed_contexts,
                    visited_urls,
                    stop_triggered,
                    last_scraped_time, semaphore, max_pages, store_docs,
                    close_calls, fetched, stop_in_run, failures >>

\* lines 97-119: one evaluation of the while condition and, when it holds,
\* the batch and its tasks, up to "await asyncio.gather"
loop_iter ==
    /\ pc = "loop"
    /\ IF urls_to_scrape # << >> /\ Cardinality(visited_urls) < max_pages
       THEN LET tasks == TasksOf(batch', visited_urls)
            IN  /\ batch' = BatchOf(urls_to_scrape, first_run)
                /\ urls_to_scrape' = RestOf(urls_to_scrape, first_run)
                /\ first_run' = FALSE
                /\ units' = [i \in 1..Len(tasks) |-> NewUnit(tasks[i])]
                /\ drained' = drained (+) SeqToBag(batch')
                /\ pc' = "gather"
       ELSE /\ pc' = "teardown"
            /\ UNCHANGED << urls_to_scrape, first_run, batch, units,
                            drained >>
    /\ UNCHANGED stop_calls
    /\ UNCHANGED << app_vars, call_vars, config_vars, closed_contexts,
                    visited_urls,
                    stop_triggered,
                    last_scraped_time, semaphore, max_pages, store_docs,
                    close_calls, fetched, stop_in_run, failures >>

\* gather taken as returning once the first task has ended
gather_returns_FirstDone ==
    /\ pc = "gather"
    /\ \E i \in 1..Len(units) : units[i].pc \in {"done", "raised"}
    /\ pc' = IF \E i \in 1..Len(units) : units[i].pc = "raised"
             THEN "teardown" ELSE "loop"
    /\ units' = SelectSeq(units, LAMBDA u : u.pc \notin {"done", "raised"})
    /\ UNCHANGED stop_calls
    /\ UNCHANGED << app_vars, call_vars, config_vars, closed_contexts,
                    batch, visited_urls,
                    urls_to_scrape, stop_triggered, last_scraped_time,
                    semaphore, max_pages, first_run, store_docs, close_calls,
                    drained, fetched, stop_in_run, failures >>

\* a gather that returns only when a task has raised
gather_returns_OnRaiseOnly ==
    /\ pc = "gather"
    /\ \E i \in 1..Len(units) : units[i].pc = "raised"
    /\ pc' = "teardown"
    /\ units' = << >>
    /\ UNCHANGED stop_calls
    /\ UNCHANGED << app_vars, call_vars, config_vars, closed_contexts,
                    batch, visited_urls, urls_to_scrape, stop_triggered,
                    last_scraped_time, semaphore, max_pages, first_run,
                    store_docs, close_calls, drained, fetched, stop_in_run,
                    failures >>

\* line 119: gather returns when every task has ended; an exception that
\* left a task is raised into the loop (line 121) and ends it
gather_returns ==
    /\ pc = "gather"
    /\ \/ \E i \in 1..Len(units) : units[i].pc = "raised"
       \/ \A i \in 1..Len(units) : units[i].pc = "done"
    /\ pc' = IF \E i \in 1..Len(units) : units[i].pc = "raised"
             THEN "teardown" ELSE "loop"
    /\ units' = << >>
    /\ UNCHANGED stop_calls
    /\ UNCHANGED << app_vars, call_vars, config_vars, closed_contexts,
                    batch,
                    visited_urls, urls_to_scrape, stop_triggered,
                    last_scraped_time, semaphore, max_pages, first_run,
                    store_docs, close_calls, drained, fetched, stop_in_run,
                    failures >>

\* a teardown that ends the run as failed when a page call has failed
teardown_FailsOnPageError ==
    /\ pc = "teardown"
    /\ pc' = IF failures > 0 THEN "failed" ELSE "done"
    /\ UNCHANGED stop_calls
    /\ batch' = << >>
    /\ closed_contexts' = closed_contexts + 1
    /\ UNCHANGED << app_vars, call_vars, config_vars, visited_urls,
                    urls_to_scrape, stop_triggered,
                    last_scraped_time, semaphore, max_pages, first_run, units,
                    store_docs, close_calls, drained, fetched, stop_in_run,
                    failures >>

\* a teardown that also empties the visited set
teardown_ClearsVisited ==
    /\ pc = "teardown"
    /\ pc' = "done"
    /\ batch' = << >>
    /\ visited_urls' = {}
    /\ UNCHANGED stop_calls
    /\ closed_contexts' = closed_contexts + 1
    /\ UNCHANGED << app_vars, call_vars, config_vars, urls_to_scrape,
                    stop_triggered, last_scraped_time, semaphore, max_pages,
                    first_run, units, store_docs, close_calls, drained,
                    fetched, stop_in_run, failures >>

\* lines 123-125: context.close() and browser.close()
teardown ==
    /\ pc = "teardown"
    /\ pc' = "done"
    /\ UNCHANGED stop_calls
    /\ batch' = << >>
    /\ closed_contexts' = closed_contexts + 1
    /\ UNCHANGED << app_vars, call_vars, config_vars, visited_urls,
                    urls_to_scrape, stop_triggered,
                    last_scraped_time, semaphore, max_pages, first_run, units,
                    store_docs, close_calls, drained, fetched, stop_in_run,
                    failures >>

\* ----------------------------------------------------- fetch units (tasks)
\* A task that has been created and can take a permit runs its first
\* stretch before any awaited rendering-engine call of a sibling returns
\* (the event loop runs ready tasks before it polls for I/O).
Startable(i) == units[i].pc = "new" /\ semaphore > 0

IoTurn == pc = "gather" /\ ~\E j \in 1..Len(units) : Startable(j)

\* The unit ends: the line-183 handler logs a caught Exception, an uncaught
\* one leaves the task; either way the permit goes back (line 137)
EndUnit(i, outcome) ==
    /\ units' = [units EXCEPT ![i].pc = IF outcome = "raised" THEN "raised"
                                        ELSE "done",
                              ![i].exc = "none"]
    /\ semaphore' = SemaphoreAfterExit(semaphore, outcome)

RaiseFrom(i, stage) ==
    EndUnit(i, IF CaughtInUnit(stage) THEN "error" ELSE "raised")

\* lines 137, 153-158: take a permit, return if the URL is visited,
\* else call context.new_page()
unit_start(i) ==
    /\ pc = "gather"
    /\ Startable(i)
    /\ \A j \in 1..(i - 1) : units[j].pc # "new"
    /\ IF units[i].url \in visited_urls
       THEN /\ units' = [units EXCEPT ![i].pc = "done"]
            /\ semaphore' = SemaphoreAfterExit(semaphore - 1, "skip")
       ELSE /\ units' = [units EXCEPT ![i].pc = "new_page"]
            /\ semaphore' = semaphore - 1
    /\ UNCHANGED stop_calls
    /\ UNCHANGED << app_vars, call_vars, config_vars, closed_contexts,
                    batch,
                    visited_urls, urls_to_scrape, stop_triggered,
                    last_scraped_time, pc, max_pages, first_run, store_docs,
                    close_calls, drained, fetched, stop_in_run, failures >>

\* line 158: context.new_page() returns or raises (outside the inner try)
new_page_returns(i, ok) ==
    /\ IoTurn
    /\ units[i].pc = "new_page"
    /\ ok \/ failures + stop_calls < MaxEvents
    /\ IF ok
       THEN /\ units' = [units EXCEPT ![i].pc = "goto"]
            /\ UNCHANGED << semaphore, failures >>
       ELSE /\ RaiseFrom(i, "new_page")
            /\ failures' = failures + 1
    /\ UNCHANGED stop_calls
    /\ UNCHANGED << app_vars, call_vars, config_vars, closed_contexts,
                    batch,
                    visited_urls, urls_to_scrape, stop_triggered,
                    last_scraped_time, pc, max_pages, first_run, store_docs,
                    close_calls, drained, fetched, stop_in_run >>

\* a fetch that marks the URL visited as soon as goto() has returned
goto_returns_MarksVisited(i, ok) ==
    /\ IoTurn
    /\ units[i].pc = "goto"
    /\ ok \/ failures + stop_calls < MaxEvents
    /\ IF ok
       THEN /\ units' = [units EXCEPT ![i].pc = "sleep"]
            /\ fetched' = fetched (+) SetToBag({units[i].url})
            /\ visited_urls' = visited_urls \cup {units[i].url}
            /\ failures' = failures
       ELSE /\ units' = [units EXCEPT ![i].pc = "close", ![i].exc = "goto"]
            /\ failures' = failures + 1
            /\ fetched' = fetched
            /\ visited_urls' = visited_urls
    /\ UNCHANGED stop_calls
    /\ UNCHANGED << app_vars, call_vars, config_vars, closed_contexts,
                    batch, urls_to_scrape, stop_triggered,
                    last_scraped_time, semaphore, pc, max_pages, first_run,
                    store_docs, close_calls, drained, stop_in_run >>

\* line 161: page.goto() returns or raises (then line 181 closes the page)
goto_returns(i, ok) ==
    /\ IoTurn
    /\ units[i].pc = "goto"
    /\ ok \/ failures + stop_calls < MaxEvents
    /\ IF ok
       THEN /\ units' = [units EXCEPT ![i].pc = "sleep"]
            /\ fetched' = fetched (+) SetToBag({units[i].url})
            /\ failures' = failures
       ELSE /\ units' = [units EXCEPT ![i].pc = "close", ![i].exc = "goto"]
            /\ failures' = failures + 1
            /\ fetched' = fetched
    /\ UNCHANGED stop_calls
    /\ UNCHANGED << app_vars, call_vars, config_vars, closed_contexts,
                    batch,
                    visited_urls, urls_to_scrape, stop_triggered,
                    last_scraped_time, semaphore, pc, max_pages, first_run,
                    store_docs, close_calls, drained, stop_in_run >>

\* lines 162-166: the crawl delay ends, the URL is marked visited and
\* _extract_content is awaited
sleep_returns(i) ==
    /\ IoTurn
    /\ units[i].pc = "sleep"
    /\ visited_urls' = visited_urls \cup {units[i].url}
    /\ units' = [units EXCEPT ![i].pc = "extract"]
    /\ UNCHANGED stop_calls
    /\ UNCHANGED << app_vars, call_vars, config_vars, closed_contexts,
                    batch,
                    urls_to_scrape, stop_triggered,
                    last_scraped_time, semaphore, pc, max_pages, first_run,
                    store_docs, close_calls, drained, fetched, stop_in_run,
                    failures >>

\* lines 166-171: _extract_content returns a document, or None when
\* something in it raised (lines 226-228); a document goes to the store;
\* then _extract_links is awaited
extract_content_returns(i, ok) ==
    /\ IoTurn
    /\ units[i].pc = "extract"
    /\ ok \/ failures + stop_calls < MaxEvents
    /\ store_docs' = IF ok THEN store_docs (+) SetToBag({units[i].url})
                     ELSE store_docs
    /\ failures' = IF ok THEN failures ELSE failures + 1
    /\ units' = [units EXCEPT ![i].pc = "links"]
    /\ UNCHANGED stop_calls
    /\ UNCHANGED << app_vars, call_vars, config_vars, closed_contexts,
                    batch,
                    visited_urls, urls_to_scrape, stop_triggered,
                    last_scraped_time, semaphore, pc, max_pages, first_run,
                    close_calls, drained, fetched, stop_in_run >>

\* lines 171-177: _extract_links returns and the new links are offered to
\* the frontier, or it raises
extract_links_returns(i, ok) ==
    /\ IoTurn
    /\ units[i].pc = "links"
    /\ ok \/ failures + stop_calls < MaxEvents
    /\ IF ok
       THEN /\ urls_to_scrape' =
                  OfferLinks(urls_to_scrape,
                             _extract_links(Hrefs(site, units[i].url)),
                             visited_urls)
            /\ units' = [units EXCEPT ![i].pc = "close"]
            /\ failures' = failures
       ELSE /\ units' = [units EXCEPT ![i].pc = "close", ![i].exc = "links"]
            /\ failures' = failures + 1
            /\ UNCHANGED urls_to_scrape
    /\ UNCHANGED stop_calls
    /\ UNCHANGED << app_vars, call_vars, config_vars, closed_contexts,
                    batch,
                    visited_urls, stop_triggered,
                    last_scraped_time, semaphore, pc, max_pages, first_run,
                    store_docs, close_calls, drained, fetched, stop_in_run >>

\* lines 180-184: page.close() in the finally clause returns or raises;
\* a pending exception, or the one of close(), goes to the outer handler
page_close_returns(i, ok) ==
    /\ IoTurn
    /\ units[i].pc = "close"
    /\ ok \/ failures + stop_calls < MaxEvents
    /\ IF ok
       THEN /\ IF units[i].exc = "none" THEN EndUnit(i, "ok")
               ELSE RaiseFrom(i, units[i].exc)
            /\ failures' = failures
       ELSE /\ RaiseFrom(i, "close")
            /\ failures' = failures + 1
    /\ UNCHANGED stop_calls
    /\ UNCHANGED << app_vars, call_vars, config_vars, closed_contexts,
                    batch,
                    visited_urls, urls_to_scrape, stop_triggered,
                    last_scraped_time, pc, max_pages, first_run, store_docs,
                    close_calls, drained, fetched, stop_in_run >>

\* ------------------------------------------------------------------ stop
\* Variant of stop: the frontier is not cleared
stop_KeepsFrontier ==
    /\ failures + stop_calls < MaxEvents
    /\ pc # "loop"
    /\ stop_triggered' = TRUE
    /\ visited_urls' = {}
    /\ close_calls' = close_calls + 1
    /\ stop_in_run' = TRUE
    /\ stop_calls' = stop_calls + 1
    /\ UNCHANGED << app_vars, call_vars, config_vars, closed_contexts,
                    batch,
                    urls_to_scrape, last_scraped_time,
                    semaphore, pc, max_pages, first_run, units, store_docs,
                    drained, fetched, failures >>

\* WebsiteScraper.stop (lines 263-271); it is a plain method called from
\* the request handler, so it can run wherever the run is suspended in an
\* await. From the return of new_context() or of gather to the next gather
\* (lines 89-119) the run awaits nothing: stop() cannot run at pc = "loop"
stop ==
    /\ failures + stop_calls < MaxEvents
    /\ pc # "loop"
    /\ stop_triggered' = TRUE
    /\ visited_urls' = {}
    /\ urls_to_scrape' = << >>
    /\ close_calls' = close_calls + 1
    /\ stop_in_run' = TRUE
    /\ stop_calls' = stop_calls + 1
    /\ UNCHANGED << app_vars, call_vars, config_vars, closed_contexts,
                    batch,
                    last_scraped_time, semaphore, pc, max_pages,
                    first_run, units, store_docs, drained, fetched, failures >>

\* ------------------------------------------------------------------ Next
Next ==
    \/ \E mp \in 1..MaxPagesArg : scrape_website(mp)
    \/ \E ok \in BOOLEAN : launch(ok)
    \/ \E ok \in BOOLEAN : new_context(ok)
    \/ loop_iter
    \/ gather_returns
    \/ teardown
    \/ \E i \in 1..Len(units) : unit_start(i)
    \/ \E i \in 1..Len(units), ok \in BOOLEAN : new_page_returns(i, ok)
    \/ \E i \in 1..Len(units), ok \in BOOLEAN : goto_returns(i, ok)
    \/ \E i \in 1..Len(units) : sleep_returns(i)
    \/ \E i \in 1..Len(units), ok \in BOOLEAN : extract_content_returns(i, ok)
    \/ \E i \in 1..Len(units), ok \in BOOLEAN : extract_links_returns(i, ok)
    \/ \E i \in 1..Len(units), ok \in BOOLEAN : page_close_returns(i, ok)
    \/ stop

Spec == Init /\ [][Next]_vars

TypeOK ==
    /\ pc \in {"idle", "launch", "new_context", "loop", "gather", "teardown",
               "done", "failed"}
    /\ semaphore \in 0..MAX_CONCURRENT_PAGES
    /\ \A i \in 1..Len(units) :
          units[i].pc \in {"new", "new_page", "goto", "sleep", "extract",
                           "links", "close", "done", "raised"}

\* =============================================================== src/app.py
MaxRequests == 3        \* requests handled by the service

\* Request URLs explored ("keys" is a host name that is also the name of an
\* attribute of a dict)
RequestUrls ==
    { <<"https:", "/", "/", "site">>,
      <<"https:", "/", "/", "site", "/", "a">>,
      <<"https:", "/", "/", "other">>,
      <<"http:", "/", "/", "keys">>,
      <<"ftp:", "/", "/", "site">> }

\* Names hasattr() finds on a dict object, among the host names explored
DictAttributes == {"keys"}

\* check_domain (lines 62-74): the URL when it starts with "http", else None
check_domain(url) ==
    IF url[1] \in {"http:", "https:"} THEN url ELSE << >>

\* extract_domain (lines 77-90): urlparse(domain).hostname
extract_domain(domain) ==
    IF domain = << >> THEN "" ELSE domain[4]

\* line 117: hasattr(scrapers, host) looks for an attribute of the dict
\* object, not for a key
AlreadyPresent(registry, host) == host \in DictAttributes

\* start_scrape (lines 93-140)
start_scrape(url, interval) ==
    /\ request.n < MaxRequests
    /\ LET domain == check_domain(url)
           host == extract_domain(domain)
       IN  /\ request' = [n |-> request.n + 1, op |-> "start",
                          host |-> host]
           /\ IF domain = << >> \/ AlreadyPresent(scrapers, host)
              THEN /\ response' = "error"
                   /\ UNCHANGED << scrapers, jobs, created, stopped >>
              ELSE /\ created' = created + 1
                   /\ jobs' = IF interval # 0 THEN jobs \cup {host} ELSE jobs
                   /\ scrapers' = [h \in DOMAIN scrapers \cup {host} |->
                                     IF h = host THEN created + 1
                                     ELSE scrapers[h]]
                   /\ response' = "started"
                   /\ UNCHANGED stopped
    /\ UNCHANGED << scraper_vars, call_vars, __default__config >>

\* a stop endpoint that leaves the scraper in the registry
stop_scrape_KeepsRegistered(url) ==
    /\ request.n < MaxRequests
    /\ LET domain == check_domain(url)
           host == extract_domain(domain)
       IN  /\ request' = [n |-> request.n + 1, op |-> "stop", host |-> host]
           /\ IF domain = << >> \/ host \notin DOMAIN scrapers
              THEN /\ response' = "error"
                   /\ UNCHANGED << scrapers, jobs, created, stopped >>
              ELSE /\ stopped' = stopped \cup {scrapers[host]}
                   /\ jobs' = jobs \ {host}
                   /\ response' = "stopped"
                   /\ UNCHANGED << scrapers, created >>
    /\ UNCHANGED __default__config

\* stop_scrape (lines 143-175)
stop_scrape(url) ==
    /\ request.n < MaxRequests
    /\ LET domain == check_domain(url)
           host == extract_domain(domain)
       IN  /\ request' = [n |-> request.n + 1, op |-> "stop", host |-> host]
           /\ IF domain = << >> \/ host \notin DOMAIN scrapers
              THEN /\ response' = "error"
                   /\ UNCHANGED << scrapers, jobs, created, stopped >>
              ELSE /\ stopped' = stopped \cup {scrapers[host]}
                   /\ scrapers' = [h \in DOMAIN scrapers \ {host} |->
                                     scrapers[h]]
                   /\ jobs' = jobs \ {host}
                   /\ response' = "stopped"
                   /\ UNCHANGED created
    /\ UNCHANGED __default__config

NextApp ==
    \/ \E url \in RequestUrls, interval \in {0, 1} :
           start_scrape(url, interval)
    \/ \E url \in RequestUrls :
          stop_scrape(url) /\ UNCHANGED << scraper_vars, call_vars >>

\* The service with its registry; the scrapers' own state is left out
InitApp ==
    /\ Init
    /\ override_robots = TRUE
    /\ robots_parser = "rules"
    /\ MAX_CONCURRENT_PAGES = 1

SpecApp == InitApp /\ [][NextApp]_vars

\* ===================================================== src/config/config.py
\* Settings that callers pass to update_config: any of three keys, each
\* with one of two values
ConfigUpdates ==
    UNION { [keys -> {"test_collection", "new_value"}] :
               keys \in SUBSET {"llm_model", "collection_name", "new_key"} }

\* dict.update(new): the keys of new get the values of new
Merged(old, new) ==
    [k \in DOMAIN old \cup DOMAIN new |->
        IF k \in DOMAIN new THEN new[k] ELSE old[k]]

\* an update that replaces the configuration by the new settings
update_config_Replaces(new_config) ==
    /\ __default__config' = new_config
    /\ call_args' = <<"update_config", new_config>>
    /\ call_result' = << >>
    /\ UNCHANGED << scraper_vars, scrapers, jobs, response, request, created,
                    stopped >>

\* update_config (lines 113-120)
update_config(new_config) ==
    /\ __default__config' = Merged(__default__config, new_config)
    /\ call_args' = <<"update_config", new_config>>
    /\ call_result' = << >>
    /\ UNCHANGED << scraper_vars, scrapers, jobs, response, request, created,
                    stopped >>

\* get_config (lines 104-110): a copy of the dict
get_config ==
    /\ call_args' = <<"get_config">>
    /\ call_result' = << __default__config >>
    /\ UNCHANGED << scraper_vars, app_vars >>

NextConfig ==
    \/ \E new_config \in ConfigUpdates : update_config(new_config)
    \/ get_config

SpecConfig == InitApp /\ [][NextConfig]_vars

\* ------------------------------------------------- runs without stop()
\* The steps of a run after its start: each is the return of an awaited
\* call or the stretch of code that follows it
RunStep ==
    \/ \E ok \in BOOLEAN : launch(ok)
    \/ \E ok \in BOOLEAN : new_context(ok)
    \/ loop_iter
    \/ gather_returns
    \/ teardown
    \/ \E i \in 1..Len(units) : unit_start(i)
    \/ \E i \in 1..Len(units), ok \in BOOLEAN : new_page_returns(i, ok)
    \/ \E i \in 1..Len(units), ok \in BOOLEAN : goto_returns(i, ok)
    \/ \E i \in 1..Len(units) : sleep_returns(i)
    \/ \E i \in 1..Len(units), ok \in BOOLEAN : extract_content_returns(i, ok)
    \/ \E i \in 1..Len(units), ok \in BOOLEAN : extract_links_returns(i, ok)
    \/ \E i \in 1..Len(units), ok \in BOOLEAN : page_close_returns(i, ok)

NextNoStop ==
    \/ \E mp \in 1..MaxPagesArg : scrape_website(mp)
    \/ RunStep

\* Every awaited call of the rendering engine returns (or raises) and the
\* event loop runs what is ready: a run that can take a step takes one
SpecNoStop == Init /\ [][NextNoStop]_vars /\ WF_vars(RunStep)

\* ------------------------------------------------------------- progress
\* a snapshot that reports the URLs queued so far instead of those left
progress_CountsDrained ==
    /\ call_args = << >>
    /\ call_args' = <<"progress">>
    /\ call_result' = << [visited_urls |-> Cardinality(visited_urls),
                          remaining_urls |-> Len(urls_to_scrape)
                                             + BagCardinality(drained),
                          last_scraped_time |-> last_scraped_time] >>
    /\ UNCHANGED << scraper_vars, app_vars >>

\* WebsiteScraper.progress (lines 273-283), called once; last_scraped_time 0
\* is reported as None
progress ==
    /\ call_args = << >>
    /\ call_args' = <<"progress">>
    /\ call_result' = << [visited_urls |-> Cardinality(visited_urls),
                          remaining_urls |-> Len(urls_to_scrape),
                          last_scraped_time |-> last_scraped_time] >>
    /\ UNCHANGED << scraper_vars, app_vars >>

\* The steps of a run in which every call of the rendering engine succeeds
RunStepOk ==
    \/ launch(TRUE)
    \/ new_context(TRUE)
    \/ loop_iter
    \/ gather_returns
    \/ teardown
    \/ \E i \in 1..Len(units) : unit_start(i)
    \/ \E i \in 1..Len(units) : new_page_returns(i, TRUE)
    \/ \E i \in 1..Len(units) : goto_returns(i, TRUE)
    \/ \E i \in 1..Len(units) : sleep_returns(i)
    \/ \E i \in 1..Len(units) : extract_content_returns(i, TRUE)
    \/ \E i \in 1..Len(units) : extract_links_returns(i, TRUE)
    \/ \E i \in 1..Len(units) : page_close_returns(i, TRUE)

\* Runs and stop() up to one call of progress(); the call changes nothing
\* of the scraper, so what follows it is what follows the state it saw
NextProgress ==
    /\ call_args = << >>
    /\ \/ \E mp \in 1..MaxPagesArg : scrape_website(mp)
       \/ RunStepOk
       \/ stop
       \/ progress

SpecProgress == Init /\ [][NextProgress]_vars

\* ------------------------------------------------ _generate_content_hash
MaxHashCalls == 3       \* calls of _generate_content_hash

\* Texts, as the bytes of their UTF-8 encoding
Contents == { << >>, <<1>>, <<2>>, <<1, 2>>, <<2, 1>> }

\* hashlib.sha256(bytes).hexdigest(), cut down to a digest of 8 bits: a
\* function of the bytes and of nothing else
RECURSIVE sha256(_)
sha256(bytes) ==
    IF bytes = << >> THEN 227
    ELSE (31 * sha256(SubSeq(bytes, 1, Len(bytes) - 1))
          + bytes[Len(bytes)] + 1) % 256

\* a digest salted with the number of earlier calls
_generate_content_hash_Salted(content) ==
    (sha256(content) + Len(call_args)) % 256

\* WebsiteScraper._generate_content_hash (lines 253-261)
_generate_content_hash(content) == sha256(content)

\* one call scraper._generate_content_hash(content); here call_args is the
\* list of the texts of all calls so far and call_result the list of what
\* they returned
call_generate_content_hash(content) ==
    /\ Len(call_args) < MaxHashCalls
    /\ call_args' = Append(call_args, content)
    /\ call_result' = Append(call_result, _generate_content_hash(content))
    /\ UNCHANGED << scraper_vars, app_vars >>

\* calls of the hash between which stop() may change the scraper's state
NextHash ==
    \/ \E content \in Contents : call_generate_content_hash(content)
    \/ stop

SpecHash == Init /\ [][NextHash]_vars

\* ========================================================= a scenario run
\* A seed page that links to two same-site pages and to an external page
ExternalUrl == <<"https:", "/", "/", "other", "/", "c">>

SiteScenario ==
    [u \in {base_url, AbsUrl("a"), AbsUrl("b"), ExternalUrl} |->
        CASE u = base_url    -> << <<"/", "a">>, AbsUrl("b"), ExternalUrl >>
          [] u = AbsUrl("a") -> << base_url >>
          [] OTHER           -> << >> ]

\* concurrency 5, robots.txt overridden or without rules
InitScenario ==
    /\ \/ override_robots = TRUE /\ robots_parser = "rules"
       \/ override_robots = FALSE /\ robots_parser = "allow_all"
    /\ MAX_CONCURRENT_PAGES = 5
    /\ site = SiteScenario
    /\ Constructed

\* runs with max_pages = 10 in which every call of the rendering engine
\* succeeds and stop() is not called
NextScenario ==
    \/ scrape_website(10)
    \/ launch(TRUE)
    \/ new_context(TRUE)
    \/ loop_iter
    \/ gather_returns
    \/ teardown
    \/ \E i \in 1..Len(units) : unit_start(i)
    \/ \E i \in 1..Len(units) : new_page_returns(i, TRUE)
    \/ \E i \in 1..Len(units) : goto_returns(i, TRUE)
    \/ \E i \in 1..Len(units) : sleep_returns(i)
    \/ \E i \in 1..Len(units) : extract_content_returns(i, TRUE)
    \/ \E i \in 1..Len(units) : extract_links_returns(i, TRUE)
    \/ \E i \in 1..Len(units) : page_close_returns(i, TRUE)

SpecScenario == InitScenario /\ [][NextScenario]_vars

\* ===================================================== single method calls
\* ---- _can_fetch on a scraper as constructed
\* States RobotFileParser can be left in by _setup_robots_parser (lines
\* 35-49): read() raised, read() got a 4xx answer, read() parsed the rules
ParserStates == {"unread", "allow_all", "rules"}

\* URLs the guard is asked about
GuardUrls ==
    { base_url, base_url \o <<"/">>, AbsUrl("a"), AbsUrl("b"), AbsUrl("c"),
      AbsUrl("b") \o <<"/", "x">>, AbsUrl("a") \o <<"/", "b">>,
      AbsUrl("robots.txt"),
      <<"https:", "/", "/", "other", "/", "b">>,
      <<"https:", "/", "/", "other", "/", "c">> }

InitGuard ==
    /\ override_robots \in BOOLEAN
    /\ robots_parser \in ParserStates
    /\ MAX_CONCURRENT_PAGES = 1
    /\ site \in Sites
    /\ Constructed

\* one call scraper._can_fetch(url)
call_can_fetch(url, raises) ==
    /\ call_args' = <<url, raises>>
    /\ call_result' = << _can_fetch(url, raises) >>
    /\ UNCHANGED << scraper_vars, app_vars >>

NextGuard ==
    \E url \in GuardUrls, raises \in BOOLEAN : call_can_fetch(url, raises)

SpecGuard == InitGuard /\ [][NextGuard]_vars

\* ---- _extract_links on the anchors of one page
MaxHrefs == 2           \* anchors on the page

\* href attributes met on a page: same-site absolute, root-relative,
\* external, relative, fragment, javascript:, mailto:, network-path
\* reference, a host that has the base URL's text as a prefix, empty
HrefKinds ==
    { AbsUrl("a"),
      <<"/", "b">>,
      <<"https:", "/", "/", "other", "/", "c">>,
      <<"c">>,
      <<"#", "frag">>,
      <<"javascript:", "void(0)">>,
      <<"mailto:", "x@site">>,
      <<"/", "/", "other", "/", "c">>,
      <<"https:", "/", "/", "site", ".evil", "/", "x">>,
      << >> }

\* A page with a same-site absolute link, a root-relative link, an external
\* link and a fragment
ExampleAnchors ==
    << AbsUrl("a"), <<"/", "b">>,
       <<"https:", "/", "/", "other", "/", "c">>, <<"#", "frag">> >>

HrefLists ==
    UNION { [1..n -> HrefKinds] : n \in 0..MaxHrefs } \cup {ExampleAnchors}

\* urlparse(url).netloc: what stands between "//" and the next "/"
Authority(url) ==
    IF Len(url) < 4 THEN << >>
    ELSE LET after == SubSeq(url, 4, Len(url))
             upto == CHOOSE k \in 0..Len(after) :
                        /\ \A j \in 1..k : after[j] # "/"
                        /\ k = Len(after) \/ after[k + 1] = "/"
         IN  SubSeq(after, 1, upto)

\* one call scraper._extract_links(page) on a page with these anchors
call_extract_links(hrefs) ==
    /\ call_args' = hrefs
    /\ call_result' = << _extract_links(hrefs) >>
    /\ UNCHANGED << scraper_vars, app_vars >>

NextLinks == \E hrefs \in HrefLists : call_extract_links(hrefs)

SpecLinks == Init /\ [][NextLinks]_vars

\* ================================================================ claims
Copies(u, bag) == IF u \in DOMAIN bag THEN bag[u] ELSE 0

InGate == Cardinality({i \in 1..Len(units) :
                          units[i].pc \notin {"new", "done", "raised"}})

BatchEnded == \A i \in 1..Len(units) : units[i].pc \in {"done", "raised"}

\* C1: in every reachable state of a run the frontier urls_to_scrape holds
\* no URL twice (also when one page yields the same link more than once).
C1_NoDuplicateEnqueue ==
    \A i, j \in 1..Len(urls_to_scrape) :
        i # j => urls_to_scrape[i] # urls_to_scrape[j]

\* C2: over one run no URL is returned by batch draining more than once,
\* the seed URL included.
C2_DrainedAtMostOnce ==
    \A u \in DOMAIN drained : Copies(u, drained) <= 1

\* C3: within one run in which stop() was not issued, each URL is fetched
\* at most once and at most one document per URL is handed to the store.
C3_FetchedAtMostOnce ==
    ~stop_in_run =>
        \A u \in DOMAIN fetched \cup DOMAIN store_docs :
            Copies(u, fetched) <= 1 /\ Copies(u, store_docs) <= 1

\* C4: in every reachable state of a run of scrape_website(max_pages) the
\* number of URLs marked visited is at most max_pages.
C4_VisitedAtMostMaxPages ==
    pc \in {"loop", "gather", "teardown", "done"} =>
        Cardinality(visited_urls) <= max_pages

\* C5: once stop() has been requested during a run, the scheduler pulls no
\* further batch.
C5_NoBatchAfterStop ==
    [][stop_in_run => ~(pc = "loop" /\ pc' = "gather")]_vars

\* C6: in the state immediately after stop() returns, whatever the state
\* before it, the frontier is empty, the visited set is empty, the stop
\* flag is set and DocumentStore.close() was called exactly once by it.
C6_StopPostState ==
    [][stop_calls' # stop_calls =>
          /\ urls_to_scrape' = << >>
          /\ visited_urls' = {}
          /\ stop_triggered' = TRUE
          /\ close_calls' = close_calls + 1]_vars

\* C6 witness: stop() has just run in the middle of a batch, after a unit
\* had marked its URL visited
C6_Witness ==
    /\ stop_calls = 1 /\ close_calls = 1 /\ stop_triggered
    /\ pc = "gather"
    /\ \E i \in 1..Len(units) : units[i].pc = "extract"
    /\ visited_urls = {} /\ urls_to_scrape = << >>

\* C7: a start request for a host that already has a scraper in the
\* registry is answered with an error, and the registered scraper stays.
C7_SecondStartRejected ==
    [][\A h \in DOMAIN scrapers :
          (request'.n # request.n /\ request'.op = "start"
           /\ request'.host = h) =>
              /\ response' = "error"
              /\ scrapers' = scrapers]_vars

\* C8: an exception raised inside one unit is caught at the unit boundary:
\* no task ends with an exception, gather is left only when every unit of
\* the batch has run to its end, and the main loop then goes on.
C8_FailureIsolation ==
    [][/\ \A i \in 1..Len(units) : units[i].pc # "raised"
       /\ (pc = "gather" /\ pc' # "gather") =>
              /\ \A i \in 1..Len(units) : units[i].pc = "done"
              /\ pc' = "loop"]_vars

\* C8 witness: a batch of two units has ended, one unit failed and its
\* sibling stored its document
C8_Witness ==
    /\ pc = "gather" /\ Len(units) >= 2 /\ BatchEnded
    /\ failures = 1
    /\ \E i \in 1..Len(units) : Copies(units[i].url, store_docs) = 1
    /\ \E i \in 1..Len(units) : Copies(units[i].url, store_docs) = 0

\* C9: if page.goto fails the URL is not in the visited set when the unit
\* ends; if it succeeds and a later step fails, the URL is in the visited
\* set when the unit ends (runs without stop()).
C9_VisitedBoundary ==
    [][\A i \in 1..Len(units) :
          (/\ ~stop_in_run' /\ Len(units') = Len(units)
           /\ units[i].pc = "close" /\ units'[i].pc = "done") =>
              /\ units[i].exc = "goto" => units[i].url \notin visited_urls'
              /\ units[i].exc = "links" => units[i].url \in visited_urls']_vars

\* C10: the number of units inside the admission gate never exceeds the
\* concurrency limit, every unit inside holds one permit, and all permits
\* are free again when the batch has ended, however its units ended.
C10_ConcurrencyCap ==
    /\ InGate <= MAX_CONCURRENT_PAGES
    /\ semaphore + InGate = MAX_CONCURRENT_PAGES
    /\ BatchEnded => semaphore = MAX_CONCURRENT_PAGES

\* C10 witness: a unit that failed has ended while a sibling is still
\* inside the gate
C10_Witness ==
    /\ pc = "gather" /\ failures = 1
    /\ \E i \in 1..Len(units) : units[i].pc = "done"
    /\ InGate >= 1
    /\ semaphore = MAX_CONCURRENT_PAGES - InGate

\* C11: batches are sequential: whenever the scheduler is at the head of its
\* loop, about to pull a batch from the frontier, no unit of an earlier
\* batch is still in flight; units of two batches are never in flight
\* together.
C11_BatchesSequential ==
    pc = "loop" => \A i \in 1..Len(units) :
                      units[i].pc \in {"done", "raised"}

\* C11 witness: a batch of several URLs whose pages were fetched has ended
\* and the scheduler is about to pull the next batch from a frontier that
\* still holds URLs
C11_Witness ==
    /\ pc = "loop" /\ Len(batch) >= 2
    /\ Cardinality(visited_urls) >= 2
    /\ Cardinality(visited_urls) < max_pages
    /\ urls_to_scrape # << >>

\* C12: every batch pulled from the frontier holds at most
\* MAX_CONCURRENT_PAGES URLs, the first batch of a run included, and so does
\* the list of tasks made from it.
C12_BatchAtMostLimit ==
    /\ Len(batch) <= MAX_CONCURRENT_PAGES
    /\ Len(units) <= MAX_CONCURRENT_PAGES

\* C12 witness: a batch of exactly the limit was cut from a frontier that
\* held more URLs than the limit
C12_Witness ==
    /\ pc = "gather" /\ MAX_CONCURRENT_PAGES >= 2
    /\ Len(batch) = MAX_CONCURRENT_PAGES
    /\ urls_to_scrape # << >>
    /\ \A i \in 1..Len(units) : units[i].pc = "new"

\* C13: every pull of a batch, the first one after seeding included,
\* returns the first min(MAX_CONCURRENT_PAGES, length) URLs of the frontier
\* in their order and leaves the frontier equal to the remaining suffix.
C13_DrainSplitsFrontier ==
    [][(pc = "loop" /\ pc' = "gather") =>
          LET n == Min(MAX_CONCURRENT_PAGES, Len(urls_to_scrape))
          IN  /\ batch' = SubSeq(urls_to_scrape, 1, n)
              /\ urls_to_scrape' =
                     SubSeq(urls_to_scrape, n + 1, Len(urls_to_scrape))]_vars

\* C14: the visited set grows monotonically: every step other than the
\* start of a run (scrape_website) and stop() leaves visited_urls equal or
\* adds URLs to it, so only those two empty it.
C14_VisitedMonotone ==
    [][(stop_calls' = stop_calls /\ last_scraped_time' = last_scraped_time)
          => visited_urls \subseteq visited_urls']_vars

\* C14 witness: a run has ended and the pages it visited are still in the
\* visited set
C14_Witness ==
    /\ pc = "done" /\ stop_calls = 0
    /\ Cardinality(visited_urls) >= 2

\* C15: a URL the policy guard does not allow is never given a fetch unit,
\* never fetched and never marked visited, and as a discovered link it is
\* never put in the frontier (the seed is queued without asking the guard).
C15_DisallowedNeverCrawled ==
    /\ \A u \in visited_urls : _can_fetch(u, FALSE)
    /\ \A u \in DOMAIN fetched : _can_fetch(u, FALSE)
    /\ \A i \in 1..Len(units) : _can_fetch(units[i].url, FALSE)
    /\ \A i \in 1..Len(urls_to_scrape) :
          urls_to_scrape[i] = base_url \/ _can_fetch(urls_to_scrape[i], FALSE)

\* C15 witness: robots.txt is honoured and disallows /b; an undisturbed run
\* with room for every page has ended, page a (which links to /b) was
\* visited and /b was not
C15_Witness ==
    /\ ~override_robots /\ robots_parser = "rules"
    /\ pc = "done" /\ max_pages = MaxPagesArg
    /\ stop_calls = 0 /\ failures = 0
    /\ AbsUrl("a") \in visited_urls
    /\ AbsUrl("b") \notin visited_urls

\* C16: with override_robots set, _can_fetch returns True for every URL,
\* whatever the state of the robots parser (rules read or robots.txt not
\* readable) and whatever happens to the evaluation of the ruleset.
C16_OverrideAllowsAll ==
    (call_args # << >> /\ override_robots) => call_result = <<TRUE>>

\* C16 witness: overridden scraper whose robots.txt could not be read,
\* asked about a URL the rules of the site disallow
C16_Witness ==
    /\ override_robots /\ robots_parser = "unread"
    /\ call_args = <<AbsUrl("b"), FALSE>>
    /\ call_result = <<TRUE>>

\* C17: with override_robots unset and an evaluation that does not raise,
\* _can_fetch returns the verdict of the parser kept since construction:
\* with the rules read, False for a URL under a disallowed path and True
\* for the other URLs.
C17_RulesetVerdict ==
    (call_args # << >> /\ ~override_robots /\ ~call_args[2]) =>
        /\ call_result = << robots_can_fetch(call_args[1]) >>
        /\ robots_parser = "rules" =>
              /\ call_args[1] \in {AbsUrl("b"), AbsUrl("b") \o <<"/", "x">>}
                    => call_result = <<FALSE>>
              /\ call_args[1] \in {base_url, AbsUrl("a"), AbsUrl("c")}
                    => call_result = <<TRUE>>

\* C17 witness: robots.txt honoured and read, a URL under the disallowed
\* path /b is refused
C17_Witness ==
    /\ ~override_robots /\ robots_parser = "rules"
    /\ call_args = <<AbsUrl("b") \o <<"/", "x">>, FALSE>>
    /\ call_result = <<FALSE>>

\* C18: fail closed: with override_robots unset, when the evaluation of the
\* ruleset raises, _can_fetch returns False (a value: nothing is raised to
\* the caller).
C18_FailClosed ==
    (call_args # << >> /\ ~override_robots /\ call_args[2]) =>
        call_result = <<FALSE>>

\* C18 witness: the evaluation raised for a URL that an allow-all parser
\* would have allowed
C18_Witness ==
    /\ ~override_robots /\ robots_parser = "allow_all"
    /\ call_args = <<AbsUrl("a"), TRUE>>
    /\ call_result = <<FALSE>>

\* C19: when robots.txt could not be fetched at construction the scraper
\* exists and, with override_robots unset, _can_fetch still allows URLs
\* (the failure counts as "no directives", not as a block).
C19_UnreadRobotsAllows ==
    (/\ call_args # << >> /\ ~override_robots /\ ~call_args[2]
     /\ robots_parser = "unread") => call_result = <<TRUE>>

\* C20: every URL returned by _extract_links is on the host of the base
\* URL.
C20_LinksOnBaseHost ==
    call_result # << >> =>
        \A i \in 1..Len(call_result[1]) :
            Authority(call_result[1][i]) = Authority(base_url)

\* C21: _extract_links returns, in page order, each href that starts with
\* base_url unchanged and each href that starts with "/" joined to base_url
\* as an absolute URL, and nothing else; for the anchors https://site/a, /b,
\* https://other/c, #frag it returns exactly https://site/a and
\* https://site/b.
C21_ExtractLinksResult ==
    call_result # << >> =>
        LET kept == SelectSeq(call_args,
                       LAMBDA h : /\ h # << >>
                                  /\ StartsWith(h, base_url) \/ h[1] = "/")
            links == call_result[1]
        IN  /\ Len(links) = Len(kept)
            /\ \A i \in 1..Len(kept) :
                  IF StartsWith(kept[i], base_url)
                  THEN links[i] = kept[i]
                  ELSE /\ links[i] = urljoin(base_url, kept[i])
                       /\ StartsWith(links[i], <<"https:", "/", "/">>)
            /\ call_args = ExampleAnchors =>
                  links = << AbsUrl("a"), AbsUrl("b") >>

\* C21 witness: the call on the example page has returned its two links
C21_Witness ==
    /\ call_args = ExampleAnchors
    /\ call_result = << << AbsUrl("a"), AbsUrl("b") >> >>

\* C22: the result of _extract_links holds no URL twice, also when the page
\* carries the same href several times or two hrefs that resolve to the
\* same absolute URL.
C22_LinksNoDuplicates ==
    call_result # << >> =>
        \A i, j \in 1..Len(call_result[1]) :
            i # j => call_result[1][i] # call_result[1][j]

\* C23: on a seed page that links to two new same-site pages and to one
\* external page, with every fetch succeeding, max_pages = 10 and
\* concurrency 5, a run ends with exactly the three same-site URLs in the
\* visited set, and the external page never gets a fetch unit and is never
\* fetched.
C23_ScenarioOutcome ==
    /\ pc = "done" => visited_urls = {base_url, AbsUrl("a"), AbsUrl("b")}
    /\ ExternalUrl \notin DOMAIN fetched
    /\ \A i \in 1..Len(units) : units[i].url # ExternalUrl

\* C23 witness: the scenario run has ended with three visited URLs
C23_Witness ==
    /\ pc = "done" /\ max_pages = 10 /\ MAX_CONCURRENT_PAGES = 5
    /\ Cardinality(visited_urls) = 3
    /\ ExternalUrl \in {site[base_url][k] : k \in 1..Len(site[base_url])}

\* C24: when the first batch of a run is about to be pulled the visited set
\* is empty, the frontier is exactly [base_url] and last_scraped_time holds
\* the start of a run; nothing an earlier run of the scraper left in the
\* frontier or in the visited set is there.
C24_SeededAtFirstBatch ==
    (pc = "loop" /\ first_run) =>
        /\ visited_urls = {}
        /\ urls_to_scrape = <<base_url>>
        /\ last_scraped_time >= 1
        /\ drained = EmptyBag

\* C24 witness: the second run of a scraper, whose first run was not
\* disturbed, is about to pull its first batch
C24_Witness ==
    /\ pc = "loop" /\ first_run
    /\ last_scraped_time = 2
    /\ override_robots /\ stop_calls = 0 /\ failures = 0

C28_ProgressReadOnly ==
    [][call_args' # call_args =>
          /\ call_result' = << [visited_urls |-> Cardinality(visited_urls'),
                                remaining_urls |-> Len(urls_to_scrape'),
                                last_scraped_time |-> last_scraped_time'] >>
          /\ scraper_vars' = scraper_vars
          /\ app_vars' = app_vars]_vars

\* C28 witness: progress() was called during a run, after a stop(), with
\* URLs queued again by the unit in flight
C28_Witness ==
    /\ call_args = <<"progress">>
    /\ pc = "gather" /\ stop_calls = 1
    /\ call_result[1].remaining_urls >= 1

\* C29: a newly constructed scraper (no run started, stop() not called) is
\* idle with an empty visited set and an empty frontier, and exactly one
\* document store was created for it.
C29_NewScraperIdle ==
    (last_scraped_time = 0 /\ stop_calls = 0) =>
        /\ pc = "idle" /\ ~stop_triggered
        /\ visited_urls = {}
        /\ urls_to_scrape = << >>
        /\ document_stores = 1

\* C29 witness: a scraper constructed while robots.txt could not be read,
\* before any of its methods is called
C29_Witness ==
    /\ last_scraped_time = 0 /\ stop_calls = 0 /\ pc = "idle"
    /\ ~override_robots /\ robots_parser = "unread"
    /\ semaphore = MAX_CONCURRENT_PAGES

C31_UpdateConfigMerges ==
    [][/\ (call_args' # call_args /\ call_args'[1] = "update_config") =>
            LET new == call_args'[2]
            IN  /\ DOMAIN __default__config' =
                       DOMAIN __default__config \cup DOMAIN new
                /\ \A k \in DOMAIN new : __default__config'[k] = new[k]
                /\ \A k \in DOMAIN __default__config \ DOMAIN new :
                       __default__config'[k] = __default__config[k]
                /\ DOMAIN new = {} => __default__config' = __default__config
       /\ (call_args' # call_args /\ call_args'[1] = "get_config") =>
            /\ call_result' = << __default__config >>
            /\ __default__config' = __default__config]_vars

\* C31 witness: get_config() after an update that set one existing key and
\* one new key returns both new values and the untouched defaults
C31_Witness ==
    /\ call_args = <<"get_config">>
    /\ call_result # << >>
    /\ DOMAIN call_result[1] =
          {"logging_level", "server_port", "llm_model", "new_key"}
    /\ call_result[1]["llm_model"] = "test_collection"
    /\ call_result[1]["new_key"] = "new_value"
    /\ call_result[1]["server_port"] = "8090"

\* C32: order of the steps of a fetch unit: its URL passed the policy
\* check before the unit exists; the fetch comes first, then the crawl
\* delay, then the URL is marked visited, then the document goes to the
\* store, then the links are offered to the frontier; the permit is taken
\* before the fetch and given back only when the unit ends, after the
\* offers.
C32_UnitStepOrder ==
    [][\A i \in 1..Len(units) :
          (Len(units') = Len(units) /\ units'[i].pc # units[i].pc) =>
              LET u == units[i].url
                  a == units[i].pc
                  b == units'[i].pc
              IN  /\ _can_fetch(u, FALSE)
                  /\ fetched' # fetched => a = "goto" /\ b = "sleep"
                  /\ a = "sleep" => b = "extract"
                  /\ visited_urls' # visited_urls =>
                        /\ a = "sleep" /\ Copies(u, fetched) >= 1
                        /\ visited_urls' = visited_urls \cup {u}
                  /\ a = "extract" => b = "links"
                  /\ store_docs' # store_docs =>
                        /\ a = "extract"
                        /\ store_docs' = store_docs (+) SetToBag({u})
                  /\ a = "links" => b = "close"
                  /\ urls_to_scrape' # urls_to_scrape =>
                        /\ a = "links"
                        /\ StartsWith(urls_to_scrape', urls_to_scrape)
                  /\ semaphore' < semaphore => a = "new"
                  /\ semaphore' > semaphore => b \in {"done", "raised"}
                  /\ (a = "new" /\ b = "new_page") =>
                        semaphore' = semaphore - 1]_vars

\* C32 witness: a unit has fetched its page, marked it visited, stored its
\* document and offered links, and still holds its permit while the page
\* is being closed
C32_Witness ==
    /\ pc = "gather"
    /\ \E i \in 1..Len(units) :
          /\ units[i].pc = "close" /\ units[i].exc = "none"
          /\ units[i].url = AbsUrl("a")
          /\ units[i].url \in visited_urls
          /\ Copies(units[i].url, store_docs) = 1
          /\ Copies(units[i].url, fetched) = 1
    /\ semaphore < MAX_CONCURRENT_PAGES

\* C33: a URL of the current batch that is not yet marked visited is not
\* protected against a second enqueue: when a unit of that batch offers a
\* link to it in that window, the URL is in the frontier afterwards.
C33_InFlightUrlEnqueuedAgain ==
    [][\A i \in 1..Len(units) :
          (/\ Len(units') = Len(units)
           /\ units[i].pc = "links"
           /\ units'[i].pc = "close"
           /\ units'[i].exc = "none") =>
              LET new_links == _extract_links(Hrefs(site, units[i].url))
              IN  \A k \in 1..Len(new_links) :
                     (/\ InSeq(new_links[k], batch)
                      /\ new_links[k] \notin visited_urls) =>
                         /\ InSeq(new_links[k], urls_to_scrape')
                         /\ ~InSeq(new_links[k], urls_to_scrape) =>
                               Len(urls_to_scrape') > Len(urls_to_scrape)]_vars

\* C33 witness: in the batch [site, a, b] the unit of b has offered its
\* link to a before a was marked visited, and a is queued again
C33_Witness ==
    /\ pc = "gather"
    /\ stop_calls = 0
    /\ batch = << base_url, AbsUrl("a"), AbsUrl("b") >>
    /\ urls_to_scrape = << AbsUrl("b"), AbsUrl("a") >>
    /\ AbsUrl("a") \notin visited_urls
    /\ \E i \in 1..Len(units) :
          /\ units[i].url = AbsUrl("b")
          /\ units[i].pc = "close" /\ units[i].exc = "none"
    /\ \E i \in 1..Len(units) :
          /\ units[i].url = AbsUrl("a")
          /\ units[i].pc \in {"new", "new_page", "goto", "sleep"}

\* C34: the frontier holds only URLs that are not yet fetched: in every
\* reachable state no URL is both in the frontier and in the visited set.
C34_FrontierDisjointFromVisited ==
    \A u \in visited_urls : ~InSeq(u, urls_to_scrape)

\* C35: FIFO dispatch across batches, entry by entry: an offer appends at
\* the tail of the frontier and keeps the entries already queued in their
\* order, and a batch is cut from the head, so every entry that stays
\* queued behind a batch was enqueued after the entries of that batch and
\* is dispatched in a later batch, never in an earlier one.
C35_FifoDispatch ==
    [][/\ (/\ pc = "gather" /\ pc' = "gather"
            /\ stop_calls' = stop_calls
            /\ urls_to_scrape' # urls_to_scrape) =>
               StartsWith(urls_to_scrape', urls_to_scrape)
       /\ (pc = "loop" /\ pc' = "gather") =>
               LET n == Len(batch')
                   m == Len(urls_to_scrape)
               IN  /\ n >= 1
                   /\ StartsWith(urls_to_scrape, batch')
                   /\ \/ urls_to_scrape' = urls_to_scrape
                      \/ urls_to_scrape' = SubSeq(urls_to_scrape, n + 1, m)]_vars

\* C35 witness: the third batch [b, a] has been cut from the head of the
\* frontier: b was left queued behind the second batch, a was appended
\* after it by an offer of that batch, and both are dispatched in that
\* order
C35_Witness ==
    /\ pc = "gather"
    /\ stop_calls = 0
    /\ batch = << AbsUrl("b"), AbsUrl("a") >>
    /\ Copies(AbsUrl("b"), drained) = 2
    /\ Copies(AbsUrl("a"), drained) = 2

\* C36: no document is handed to the document store after stop() has
\* closed it: once stop() has returned in a run, no fetch unit that is
\* still in flight calls store_documents.
C36_NoStoreAfterStop ==
    [][(stop_in_run /\ stop_in_run') => store_docs' = store_docs]_vars

\* C37: the stop endpoint. For a host with a registered scraper it calls
\* that scraper's stop(), removes the host from the registry, removes the
\* host's scheduled job and answers with success, so a stop that follows
\* it for the same host answers with an error; for a host without a
\* registered scraper it answers with an error and leaves the registry,
\* the scheduled jobs and every scraper unchanged.
C37_StopEndpoint ==
    [][(request'.n # request.n /\ request'.op = "stop") =>
          LET h == request'.host
          IN  /\ IF h \in DOMAIN scrapers
                 THEN /\ response' = "stopped"
                      /\ stopped' = stopped \cup {scrapers[h]}
                      /\ DOMAIN scrapers' = DOMAIN scrapers \ {h}
                      /\ \A g \in DOMAIN scrapers' : scrapers'[g] = scrapers[g]
                      /\ jobs' = jobs \ {h}
                 ELSE /\ response' = "error"
                      /\ scrapers' = scrapers
                      /\ jobs' = jobs
                      /\ stopped' = stopped
              /\ (response = "stopped" /\ request.host = h) =>
                    response' = "error"]_vars

\* C37 witness: a scraper with a scheduled job was started for the host,
\* a first stop removed it and its job, and the second stop for the same
\* host was answered with an error
C37_Witness ==
    /\ request = [n |-> 3, op |-> "stop", host |-> "site"]
    /\ response = "error"
    /\ created = 1
    /\ stopped = {1}
    /\ "site" \notin DOMAIN scrapers
    /\ jobs = {}

====
